---- MODULE Spec2Model ----
(***************************************************************************)
(* The authentication layer of the admin console: the Token Store          *)
(* (localStorage), the axios instance with its two interceptors            *)
(* (services/authService.js), the Session Controller (AuthProvider and     *)
(* authReducer of contexts/AuthContext.jsx) and the pages that drive them. *)
(*                                                                         *)
(* The browser runs one task at a time: an action of this model is one     *)
(* task, i.e. a handler from the event that starts it up to the next       *)
(* await on the network (promise continuations run as microtasks of the    *)
(* same task).  The backend is an external collaborator: every response    *)
(* it gives is a nondeterministic choice.                                  *)
(***************************************************************************)
EXTENDS Integers, Sequences, FiniteSets, TLC

\* ---------------------------------------------------------------- bounds
\* token pairs the backend issues in one run
MaxIssued == 2
\* page-level data calls (useApi) that can be in flight at once
MaxReq == 1
\* calls of execute() on the one useApi hook of a page, in flight at once
MaxCalls == 2
\* calls of confirm() on one page
MaxConfirms == 3

\* ---------------------------------------------------------------- values
Null == [kind |-> "null"]
Str(s) == [kind |-> "string", v |-> s]

\* a JWT access token of pair k expiring at e; a refresh token of pair k
AccessToken(k, e) == [kind |-> "jwt", id |-> k, exp |-> e]
RefreshToken(k) == [kind |-> "refresh", id |-> k]
\* a stored access token that is no JWT
Garbage == [kind |-> "garbage"]

Users ==
  { [kind |-> "user", id |-> 1, is_superuser |-> TRUE, company_id |-> 1],
    [kind |-> "user", id |-> 2, is_superuser |-> FALSE, company_id |-> 2] }

\* the users the Route Guard tells apart: administrator or not, root tenant
\* (company 1) or another
ROOT_COMPANY_ID == 1
OtherCompanyId == ROOT_COMPANY_ID + 1
AllUsers ==
  [kind : {"user"}, id : {1}, is_superuser : BOOLEAN,
   company_id : {ROOT_COMPANY_ID, OtherCompanyId}]
  \cup Users

\* URLs and paths are sequences of their segments; a substring test on the
\* text is a contiguous-subsequence test on the segments for every URL and
\* pattern the program uses
includes(s, pat) ==
  \E i \in 0..(Len(s) - Len(pat)) : SubSeq(s, i + 1, i + Len(pat)) = pat

URL_LOGIN == <<"auth", "login">>
URL_LOGOUT == <<"auth", "logout">>
URL_REFRESH == <<"auth", "refresh">>
URL_ME == <<"users", "me">>
URL_ME_SESSIONS == <<"users", "me", "sessions">>
URL_USERS == <<"users", "">>
CrudUrls == {URL_ME_SESSIONS, URL_USERS}

ROUTE_LOGIN == <<"login">>
ROUTE_DASHBOARD == <<"dashboard">>
Routes == {ROUTE_LOGIN, ROUTE_DASHBOARD}
ROUTE_ADMIN_USERS == <<"admin", "users">>
ROUTE_ADMIN_COMPANIES == <<"admin", "companies">>
AdminRoutes == {ROUTE_ADMIN_USERS, ROUTE_ADMIN_COMPANIES}
\* the props App gives the ProtectedRoute of each guarded path
RouteProps(route) ==
  [requireAdmin |-> route \in AdminRoutes,
   requireRoot |-> route = ROUTE_ADMIN_COMPANIES]
GuardedRoutes == {ROUTE_DASHBOARD} \cup AdminRoutes
PublicPages == {<<"login">>, <<"register">>, <<"forgot-password">>}

\* the errors a call can fail with: a 401 and a 500 response, and no
\* response at all (network error or the axios timeout)
Errors ==
  { [status |-> 401, detail |-> "Could not validate credentials",
     message |-> "Request failed with status code 401"],
    [status |-> 500, detail |-> "",
     message |-> "Request failed with status code 500"],
    [status |-> 0, detail |-> "", message |-> "Network Error"] }

MESSAGES_ERROR_LOGIN == "Login failed"
MESSAGES_ERROR_UPDATE == "Update failed"
MESSAGES_ERROR_NETWORK == "Network error occurred"

\* a || b || c || d on strings: the first that is not empty
Or4(a, b, c, d) ==
  IF a # "" THEN a ELSE IF b # "" THEN b ELSE IF c # "" THEN c ELSE d

\* a || b || c on strings: the first that is not empty
Or3(a, b, c) == IF a # "" THEN a ELSE IF b # "" THEN b ELSE c

\* ---------------------------------------------------------------- flows
Flow(name) == <<name, 0>>
InitFlow == Flow("initializeAuth")
LoginFlow == Flow("login")
LogoutFlow == Flow("logout")
UpdateFlow == Flow("updateUser")
Crud(i) == <<"crud", i>>
CrudFlows == {Crud(i) : i \in 1..MaxReq}
ApiFlows == {Crud(i) : i \in 1..MaxCalls}
Flows == {InitFlow, LoginFlow, LogoutFlow, UpdateFlow} \cup CrudFlows
           \cup ApiFlows

VARIABLES
  localStorage,             \* the Token Store: access_token, refresh_token
  state,                    \* useReducer(authReducer, initialState)
  initializationAttempted,  \* useRef latch of the mount effect
  isInitializing,           \* useRef latch of the mount effect
  pathname,                 \* window.location.pathname
  locationState,            \* location.state?.from?.pathname, <<>> if absent
  redirectPending,          \* a setTimeout(... href = '/login') is armed
  pc,                       \* where each flow is suspended
  req,                      \* the request each flow awaits (axios config)
  loc,                      \* the locals a suspended flow holds
  issued,                   \* token pairs the backend issued so far
  hook,                     \* useApi of the page shown: loading, error
  confirmState,             \* useConfirm: useState({isOpen: false, ...})
  onConfirmRef,             \* useConfirm: useRef(null), 0 for null
  promises,                 \* the promises confirm() returned so far
  last                      \* what the last task did (history)

vars == <<localStorage, state, initializationAttempted, isInitializing,
          pathname, locationState, redirectPending, pc, req, loc, issued,
          hook, confirmState, onConfirmRef, promises, last>>

\* the state of the useConfirm hook
dialogVars == <<confirmState, onConfirmRef, promises>>
\* the state of the rest of the application
appVars == <<localStorage, state, initializationAttempted, isInitializing,
             pathname, locationState, redirectPending, pc, req, loc, issued,
             hook>>

\* ---------------------------------------------------------------- reducer
initialState ==
  [user |-> Null, token |-> Null, refreshToken |-> Null,
   isAuthenticated |-> FALSE, isLoading |-> TRUE, error |-> Null]

\* LOGOUT that only drops the flag
reduceLogoutKeepsSession(s) ==
  [s EXCEPT !.isAuthenticated = FALSE, !.isLoading = FALSE, !.error = Null]

\* case 'LOGOUT'
reduceLogout(s) ==
  [s EXCEPT !.user = Null, !.token = Null, !.refreshToken = Null,
            !.isAuthenticated = FALSE, !.isLoading = FALSE, !.error = Null]

\* CLEAR_ERROR that also ends the loading state, as SET_ERROR does
reduceClearErrorStopsLoading(s) ==
  [s EXCEPT !.error = Null, !.isLoading = FALSE]

\* case 'CLEAR_ERROR'
reduceClearError(s) == [s EXCEPT !.error = Null]

authReducer(s, action) ==
  CASE action.type = "LOGIN_START" ->
         [s EXCEPT !.isLoading = TRUE, !.error = Null]
    [] action.type = "LOGIN_SUCCESS" ->
         [s EXCEPT !.user = action.payload.user,
                   !.token = action.payload.token,
                   !.refreshToken = action.payload.refreshToken,
                   !.isAuthenticated = TRUE,
                   !.isLoading = FALSE,
                   !.error = Null]
    [] action.type = "LOGIN_FAILURE" ->
         [s EXCEPT !.user = Null, !.token = Null, !.refreshToken = Null,
                   !.isAuthenticated = FALSE, !.isLoading = FALSE,
                   !.error = action.payload]
    [] action.type = "LOGOUT" -> reduceLogout(s)
    [] action.type = "UPDATE_USER" -> [s EXCEPT !.user = action.payload]
    [] action.type = "SET_LOADING" -> [s EXCEPT !.isLoading = action.payload]
    [] action.type = "SET_ERROR" ->
         [s EXCEPT !.error = action.payload, !.isLoading = FALSE]
    [] action.type = "CLEAR_ERROR" -> reduceClearError(s)
    [] OTHER -> s

\* ---------------------------------------------------------------- world
\* The mutable program state as one record, so that a handler is a
\* composition of the calls it makes.
NoHttp == [ev |-> "none"]
NoReq == [phase |-> "none"]
NoLoc == [kind |-> "none"]

NoLast == [http |-> NoHttp, flow |-> "none", p |-> InitFlow, held |-> NoLoc]
Did(what) == [NoLast EXCEPT !.flow = what]

World ==
  [ls |-> localStorage, st |-> state,
   attempted |-> initializationAttempted, initializing |-> isInitializing,
   path |-> pathname, locationState |-> locationState,
   redirect |-> redirectPending,
   pc |-> pc, req |-> req, loc |-> loc, issued |-> issued, hook |-> hook,
   last |-> NoLast]

Commit(w) ==
  /\ localStorage' = w.ls
  /\ state' = w.st
  /\ initializationAttempted' = w.attempted
  /\ isInitializing' = w.initializing
  /\ pathname' = w.path
  /\ locationState' = w.locationState
  /\ redirectPending' = w.redirect
  /\ pc' = w.pc
  /\ req' = w.req
  /\ loc' = w.loc
  /\ issued' = w.issued
  /\ hook' = w.hook
  /\ last' = w.last
  /\ UNCHANGED dialogVars

getItem(w, key) == w.ls[key]
setItem(w, key, value) == [w EXCEPT !.ls[key] = value]
removeItem(w, key) == [w EXCEPT !.ls[key] = Null]
dispatch(w, action) == [w EXCEPT !.st = authReducer(w.st, action)]
clearTokens(w) == removeItem(removeItem(w, "access_token"), "refresh_token")
\* useApi: useState(false), useState(null)
initialHook == [loading |-> FALSE, error |-> Null]

\* the page shown is unmounted: the page that replaces it has a hook of its
\* own, and the calls the old page awaits set the state of no mounted hook
unmountPage(w) ==
  [w EXCEPT !.hook = initialHook,
            !.loc = [p \in Flows |->
                       IF w.loc[p].kind = "execute"
                       THEN [w.loc[p] EXCEPT !.mounted = FALSE]
                       ELSE w.loc[p]]]

\* the router shows the element of another path
show(w, to, state_from) ==
  [(IF to = w.path THEN w ELSE unmountPage(w))
     EXCEPT !.path = to, !.locationState = state_from]

\* navigate(to): the new location carries no state
navigate(w, to) == show(w, to, <<>>)
\* a flow returns or throws to its caller
finish(w, p, how) ==
  [w EXCEPT !.pc[p] = "idle", !.loc[p] = NoLoc,
            !.last.flow = how, !.last.p = p, !.last.held = w.loc[p]]

\* ---------------------------------------------------------------- HTTP client
\* Date.now() / 1000 at bootstrap; a token's exp lies before or after it
currentTime == 1
Expired == currentTime - 1
Valid == currentTime + 1

\* jwt-decode: the payload of a JWT, or a throw on anything else
jwtDecode(token) ==
  IF token.kind = "jwt" THEN [ok |-> TRUE, exp |-> token.exp]
  ELSE [ok |-> FALSE]

\* the pair the backend issues as number k
NewPair(k) ==
  [access_token |-> AccessToken(k, Valid), refresh_token |-> RefreshToken(k)]

newConfig(url) ==
  [phase |-> "new", url |-> url, retry |-> FALSE, Authorization |-> Null,
   error |-> Null, dispatches |-> 0, refreshes |-> 0]

\* a request interceptor that attaches nothing
requestInterceptorWithoutToken(w, config) == config

\* api.interceptors.request.use: the header is "Bearer " + the stored
\* access token; it is modelled by the token it carries
requestInterceptor(w, config) ==
  LET token == getItem(w, "access_token") IN
  IF token # Null THEN [config EXCEPT !.Authorization = token] ELSE config

\* api(config): through the request interceptor and onto the wire
api(w, p, config) ==
  [w EXCEPT !.req[p] = [requestInterceptor(w, config) EXCEPT
                          !.phase = "sent", !.dispatches = @ + 1]]

\* a service function called by flow p, which then awaits at label
call(w, p, url, label) ==
  [api(w, p, newConfig(url)) EXCEPT !.pc[p] = label]

\* ---------------------------------------------------------------- Session Controller
\* initializeAuth: the finally block, then the async function returns
initFinally(w, how) ==
  finish([w EXCEPT !.initializing = FALSE], InitFlow, how)

\* a catch block that dispatches LOGOUT and leaves the refresh token stored
initCatchKeepsRefreshToken(w, how) ==
  initFinally(dispatch(removeItem(w, "access_token"), [type |-> "LOGOUT"]), how)

\* a catch block that clears the tokens but dispatches nothing
initCatchWithoutLogout(w, how) ==
  initFinally(clearTokens(w), how)

\* initializeAuth: each catch block clears both tokens and dispatches LOGOUT
initCatch(w, how) ==
  initFinally(dispatch(clearTokens(w), [type |-> "LOGOUT"]), how)

\* a bootstrap that only asks for the access token before it goes on
initializeAuthNeedsOnlyAccessToken(w) ==
  LET token == getItem(w, "access_token")
      refreshToken == getItem(w, "refresh_token")
      held == [w EXCEPT !.loc[InitFlow] =
                 [kind |-> "init", token |-> token, refreshToken |-> refreshToken]]
  IN
  IF token = Null
  THEN initFinally(dispatch(held, [type |-> "SET_LOADING", payload |-> FALSE]),
                   "init_no_tokens")
  ELSE IF ~jwtDecode(token).ok
  THEN initCatch(held, "init_malformed")
  ELSE IF jwtDecode(token).exp > currentTime
  THEN call(held, InitFlow, URL_ME, "init_getCurrentUser")
  ELSE call(held, InitFlow, URL_REFRESH, "init_refreshToken")

\* initializeAuth, from its start to its first await
initializeAuth(w) ==
  LET token == getItem(w, "access_token")
      refreshToken == getItem(w, "refresh_token")
      held == [w EXCEPT !.loc[InitFlow] =
                 [kind |-> "init", token |-> token, refreshToken |-> refreshToken]]
  IN
  IF token = Null \/ refreshToken = Null
  THEN initFinally(dispatch(held, [type |-> "SET_LOADING", payload |-> FALSE]),
                   "init_no_tokens")
  ELSE IF ~jwtDecode(token).ok
  THEN initCatch(held, "init_malformed")
  ELSE IF jwtDecode(token).exp > currentTime
  THEN call(held, InitFlow, URL_ME, "init_getCurrentUser")
  ELSE call(held, InitFlow, URL_REFRESH, "init_refreshToken")

\* a valid-token branch that takes the pair from the Token Store when the
\* user fetch returns
initUserFetchedFromStore(w, user) ==
  initFinally(
    dispatch(w, [type |-> "LOGIN_SUCCESS",
                 payload |-> [user |-> user,
                              token |-> getItem(w, "access_token"),
                              refreshToken |-> getItem(w, "refresh_token")]]),
    "init_authenticated")

\* initializeAuth after authService.getCurrentUser() returned (valid token)
initUserFetched(w, user) ==
  initFinally(
    dispatch(w, [type |-> "LOGIN_SUCCESS",
                 payload |-> [user |-> user,
                              token |-> w.loc[InitFlow].token,
                              refreshToken |-> w.loc[InitFlow].refreshToken]]),
    "init_authenticated")

\* initializeAuth after authService.refreshToken() returned (expired token)
initRefreshed(w, newTokens) ==
  LET w1 == setItem(w, "access_token", newTokens.access_token)
      w2 == setItem(w1, "refresh_token", newTokens.refresh_token)
      w3 == [w2 EXCEPT !.loc[InitFlow] =
               [kind |-> "init", token |-> w.loc[InitFlow].token,
                refreshToken |-> w.loc[InitFlow].refreshToken,
                newTokens |-> newTokens]]
  IN call(w3, InitFlow, URL_ME, "init_getCurrentUser2")

\* initializeAuth after getCurrentUser() returned with the renewed token
initRefreshedUserFetched(w, user) ==
  initFinally(
    dispatch(w, [type |-> "LOGIN_SUCCESS",
                 payload |-> [user |-> user,
                              token |-> w.loc[InitFlow].newTokens.access_token,
                              refreshToken |-> w.loc[InitFlow].newTokens.refresh_token]]),
    "init_refreshed_authenticated")

\* a mount effect without the latch
mountEffectWithoutLatch(w) ==
  initializeAuth([w EXCEPT !.attempted = TRUE, !.initializing = TRUE])

\* the mount effect of AuthProvider: the latch, then initializeAuth()
mountEffect(w) ==
  IF w.attempted \/ w.initializing
  THEN [w EXCEPT !.last.flow = "mount_skipped"]
  ELSE initializeAuth([w EXCEPT !.attempted = TRUE, !.initializing = TRUE])

\* login, from its start to its first await
login(w) ==
  call(dispatch(w, [type |-> "LOGIN_START"]), LoginFlow, URL_LOGIN, "login_post")

\* login that fetches the user before it persists the refresh token
loginRespondedDropsRefreshToken(w, response) ==
  LET w1 == setItem(w, "access_token", response.access_token)
      w3 == [w1 EXCEPT !.loc[LoginFlow] = [kind |-> "login", response |-> response]]
  IN call(w3, LoginFlow, URL_ME, "login_getCurrentUser")

\* login after authService.login() returned
loginResponded(w, response) ==
  LET w1 == setItem(w, "access_token", response.access_token)
      w2 == setItem(w1, "refresh_token", response.refresh_token)
      w3 == [w2 EXCEPT !.loc[LoginFlow] = [kind |-> "login", response |-> response]]
  IN call(w3, LoginFlow, URL_ME, "login_getCurrentUser")

\* login after authService.getCurrentUser() returned
loginUserFetched(w, user) ==
  finish(
    dispatch(w, [type |-> "LOGIN_SUCCESS",
                 payload |-> [user |-> user,
                              token |-> w.loc[LoginFlow].response.access_token,
                              refreshToken |-> w.loc[LoginFlow].response.refresh_token]]),
    LoginFlow, "login_returned")

\* a catch block that rethrows without dispatching LOGIN_FAILURE
loginCatchWithoutDispatch(w, error) ==
  finish(w, LoginFlow, "login_threw")

\* login: the catch block, which rethrows
loginCatch(w, error) ==
  LET errorMessage == Or3(error.detail, error.message, MESSAGES_ERROR_LOGIN) IN
  finish(dispatch(w, [type |-> "LOGIN_FAILURE", payload |-> Str(errorMessage)]),
         LoginFlow, "login_threw")

\* a logout whose clean-up is in the try block: skipped when the call fails
logoutFinallyOnlyOnSuccess(w) ==
  LET w1 == IF w.last.http.ev = "resolved"
            THEN dispatch(clearTokens(w), [type |-> "LOGOUT"])
            ELSE w
  IN finish(navigate(w1, ROUTE_LOGIN), LogoutFlow, "logout_returned")

\* logout: the finally block; Layout.handleLogout then navigates to /login
logoutFinally(w) ==
  LET w1 == dispatch(clearTokens(w), [type |-> "LOGOUT"]) IN
  finish(navigate(w1, ROUTE_LOGIN), LogoutFlow, "logout_returned")

\* updateUser after authService.updateCurrentUser() returned
updateUserResponded(w, updatedUser) ==
  finish(dispatch(w, [type |-> "UPDATE_USER", payload |-> updatedUser]),
         UpdateFlow, "updateUser_returned")

\* a catch block that reports the failure as a failed login does
updateUserCatchAsLoginFailure(w, error) ==
  LET errorMessage == Or3(error.detail, error.message, MESSAGES_ERROR_UPDATE) IN
  finish(dispatch(w, [type |-> "LOGIN_FAILURE", payload |-> Str(errorMessage)]),
         UpdateFlow, "updateUser_threw")

\* updateUser: the catch block, which rethrows
updateUserCatch(w, error) ==
  LET errorMessage == Or3(error.detail, error.message, MESSAGES_ERROR_UPDATE) IN
  finish(dispatch(w, [type |-> "SET_ERROR", payload |-> Str(errorMessage)]),
         UpdateFlow, "updateUser_threw")

\* ---------------------------------------------------------------- useApi
\* the options pages give execute(): none, or a custom error message
ExecuteOptions == [errorMessage : {"", "Operation failed"}]

\* setLoading / setError of the hook, which act while its page is mounted
setLoading(w, p, value) ==
  IF w.loc[p].mounted THEN [w EXCEPT !.hook.loading = value] ELSE w
setError(w, p, value) ==
  IF w.loc[p].mounted THEN [w EXCEPT !.hook.error = value] ELSE w

\* execute(apiCall, options), from its start to its await (showLoading is
\* left at its default, true, by every caller)
execute(w, p, url, options) ==
  LET w1 == [w EXCEPT !.loc[p] = [kind |-> "execute",
                                  errorMessage |-> options.errorMessage,
                                  mounted |-> TRUE, overlapped |-> FALSE,
                                  err |-> Null]]
      w2 == setError(setLoading(w1, p, TRUE), p, Null)
  IN call(w2, p, url, "execute_apiCall")

\* execute: apiCall() returned; the finally block
executeReturned(w, p, result) ==
  finish(setLoading(w, p, FALSE), p, "crud_returned")

\* the calls of the hook that are awaited while call p fails
overlap(w, p) ==
  [q \in Flows |->
     IF q # p /\ w.loc[q].kind = "execute" /\ w.loc[q].mounted
                /\ w.loc[p].mounted
     THEN [w.loc[q] EXCEPT !.overlapped = TRUE]
     ELSE w.loc[q]]

\* a catch block that reports the finally's work as undone
executeCatchKeepsLoading(w, p, err) ==
  LET errorMsg == Or4(w.loc[p].errorMessage, err.detail, err.message,
                      MESSAGES_ERROR_NETWORK)
      w1 == setError([w EXCEPT !.loc = overlap(w, p), !.loc[p].err = err],
                     p, Str(errorMsg))
  IN finish(w1, p, "crud_threw")

\* execute: the catch block, which rethrows, and the finally block
executeCatch(w, p, err) ==
  LET errorMsg == Or4(w.loc[p].errorMessage, err.detail, err.message,
                      MESSAGES_ERROR_NETWORK)
      w1 == setError([w EXCEPT !.loc = overlap(w, p), !.loc[p].err = err],
                     p, Str(errorMsg))
  IN finish(setLoading(w1, p, FALSE), p, "crud_threw")

\* the awaited promise of flow p fulfils with data: the flow continues
resolve(w, p, data) ==
  CASE w.pc[p] = "init_getCurrentUser" -> initUserFetched(w, data)
    [] w.pc[p] = "init_refreshToken" -> initRefreshed(w, data)
    [] w.pc[p] = "init_getCurrentUser2" -> initRefreshedUserFetched(w, data)
    [] w.pc[p] = "login_post" -> loginResponded(w, data)
    [] w.pc[p] = "login_getCurrentUser" -> loginUserFetched(w, data)
    [] w.pc[p] = "logout_post" -> logoutFinally(w)
    [] w.pc[p] = "updateUser_put" -> updateUserResponded(w, data)
    [] w.pc[p] = "execute_apiCall" -> executeReturned(w, p, data)

\* the awaited promise of flow p rejects with error: the flow's catch runs
reject(w, p, error) ==
  CASE w.pc[p] = "init_getCurrentUser" -> initCatch(w, "init_user_failed")
    [] w.pc[p] = "init_refreshToken" -> initCatch(w, "init_refresh_failed")
    [] w.pc[p] = "init_getCurrentUser2" ->
         initCatch(w, "init_refreshed_user_failed")
    [] w.pc[p] = "login_post" -> loginCatch(w, error)
    [] w.pc[p] = "login_getCurrentUser" -> loginCatch(w, error)
    [] w.pc[p] = "logout_post" -> logoutFinally(w)
    [] w.pc[p] = "updateUser_put" -> updateUserCatch(w, error)
    [] w.pc[p] = "execute_apiCall" -> executeCatch(w, p, error)

\* ---------------------------------------------------------------- response interceptor
\* what the interceptor did with an error, for the history variable
Rejected(w, p, before, error, why, scheduled) ==
  [ev |-> "rejected", p |-> p, url |-> w.req[p].url, status |-> error.status,
   why |-> why,
   retried |-> before.req[p].retry, path |-> w.path, scheduled |-> scheduled,
   lsBefore |-> before.ls, ls |-> w.ls,
   dispatches |-> w.req[p].dispatches, refreshes |-> w.req[p].refreshes]

\* return Promise.reject(error): the request is over and the caller's catch runs
promiseReject(w, p, error, http) ==
  reject([w EXCEPT !.req[p] = NoReq, !.last.http = http], p, error)

\* the fulfilled handler (response) => response: the caller continues
promiseResolve(w, p, data) ==
  LET http == [ev |-> "resolved", p |-> p, url |-> w.req[p].url, data |-> data,
               retried |-> w.req[p].retry,
               Authorization |-> w.req[p].Authorization,
               dispatches |-> w.req[p].dispatches,
               refreshes |-> w.req[p].refreshes]
  IN resolve([w EXCEPT !.req[p] = NoReq, !.last.http = http], p, data)

\* the guard of the delayed redirect in the interceptor's catch block
shouldRedirect(path, url) ==
  LET isPublicPage == \E page \in PublicPages : includes(path, page)
      isAuthContextRequest == includes(url, URL_ME)
      isRefreshRequest == includes(url, URL_REFRESH)
  IN ~isPublicPage /\ ~isAuthContextRequest /\ ~isRefreshRequest

\* the guard without the retry marker
shouldRefreshIgnoringMarker(error, originalRequest) ==
  error.status = 401

\* error.response?.status === 401 && !originalRequest._retry
shouldRefresh(error, originalRequest) ==
  error.status = 401 /\ ~originalRequest.retry

\* a handler that waits for the refresh of another request instead of
\* issuing its own: it gives up when one is in flight
responseInterceptorCoalescing(w, p, error) ==
  LET originalRequest == w.req[p]
      w1 == [w EXCEPT !.req[p].retry = TRUE]
      refreshToken == getItem(w1, "refresh_token")
  IN
  IF ~shouldRefresh(error, originalRequest)
  THEN promiseReject(w, p, error,
                     Rejected(w, p, w, error,
                              IF error.status = 401 THEN "retried" ELSE "not_401",
                              FALSE))
  ELSE IF refreshToken = Null
  THEN promiseReject(w1, p, error,
                     Rejected(w1, p, w, error, "no_refresh_token", FALSE))
  ELSE IF \E q \in Flows \ {p} : w.req[q].phase = "refreshing"
  THEN promiseReject(w1, p, error,
                     Rejected(w1, p, w, error, "coalesced", FALSE))
  ELSE [w1 EXCEPT !.req[p].phase = "refreshing",
                  !.req[p].refreshes = @ + 1,
                  !.req[p].error = error,
                  !.last.http = [ev |-> "refreshing", p |-> p,
                                 url |-> originalRequest.url,
                                 refresh_token |-> refreshToken]]

\* a handler that clears the Token Store on every error it propagates
responseInterceptorClearsOnError(w, p, error) ==
  LET originalRequest == w.req[p]
      w1 == [w EXCEPT !.req[p].retry = TRUE]
      refreshToken == getItem(w1, "refresh_token")
  IN
  IF ~shouldRefresh(error, originalRequest)
  THEN promiseReject(clearTokens(w), p, error,
                     Rejected(clearTokens(w), p, w, error,
                              IF error.status = 401 THEN "retried" ELSE "not_401",
                              FALSE))
  ELSE IF refreshToken = Null
  THEN promiseReject(w1, p, error,
                     Rejected(w1, p, w, error, "no_refresh_token", FALSE))
  ELSE [w1 EXCEPT !.req[p].phase = "refreshing",
                  !.req[p].refreshes = @ + 1,
                  !.req[p].error = error,
                  !.last.http = [ev |-> "refreshing", p |-> p,
                                 url |-> originalRequest.url,
                                 refresh_token |-> refreshToken]]

\* the rejected handler of api.interceptors.response.use, up to its await
responseInterceptor(w, p, error) ==
  LET originalRequest == w.req[p] IN
  IF shouldRefresh(error, originalRequest)
  THEN LET w1 == [w EXCEPT !.req[p].retry = TRUE]
           refreshToken == getItem(w1, "refresh_token")
       IN IF refreshToken # Null
          THEN [w1 EXCEPT !.req[p].phase = "refreshing",
                          !.req[p].refreshes = @ + 1,
                          !.req[p].error = error,
                          !.last.http = [ev |-> "refreshing", p |-> p,
                                         url |-> originalRequest.url,
                                         refresh_token |-> refreshToken]]
          ELSE promiseReject(w1, p, error,
                             Rejected(w1, p, w, error, "no_refresh_token", FALSE))
  ELSE promiseReject(w, p, error,
                     Rejected(w, p, w, error,
                              IF error.status = 401 THEN "retried" ELSE "not_401",
                              FALSE))

\* the interceptor after axios.post(.../auth/refresh) returned
refreshSucceeded(w, p, data) ==
  LET w1 == setItem(w, "access_token", data.access_token)
      w2 == setItem(w1, "refresh_token", data.refresh_token)
      w3 == [w2 EXCEPT !.req[p].Authorization = data.access_token]
      w4 == api(w3, p, w3.req[p])
  IN [w4 EXCEPT !.last.http = [ev |-> "refreshed", p |-> p, url |-> w4.req[p].url,
                               data |-> data,
                               Authorization |-> w4.req[p].Authorization,
                               dispatches |-> w4.req[p].dispatches]]

\* a catch block that redirects but leaves the tokens in place
refreshFailedKeepsTokens(w, p) ==
  LET scheduled == shouldRedirect(w.path, w.req[p].url)
      w2 == IF scheduled THEN [w EXCEPT !.redirect = TRUE] ELSE w
  IN promiseReject(w2, p, w.req[p].error,
                   Rejected(w2, p, w, w.req[p].error, "refresh_failed", scheduled))

\* the interceptor's catch block after axios.post(.../auth/refresh) threw
refreshFailed(w, p) ==
  LET w1 == clearTokens(w)
      scheduled == shouldRedirect(w.path, w.req[p].url)
      w2 == IF scheduled THEN [w1 EXCEPT !.redirect = TRUE] ELSE w1
  IN promiseReject(w2, p, w.req[p].error,
                   Rejected(w2, p, w, w.req[p].error, "refresh_failed", scheduled))

\* ---------------------------------------------------------------- Route Guard
\* user?.is_superuser and user?.company_id: undefined when there is no user
isSuperuser(user) == user # Null /\ user.is_superuser
inRootCompany(user) == user # Null /\ user.company_id = ROOT_COMPANY_ID

\* what ProtectedRoute returns: the spinner, a <Navigate> or its children
Element(out, to, from) == [out |-> out, to |-> to, from |-> from]

\* a guard that does not look at requireRoot
ProtectedRouteWithoutRootCheck(session, props, location) ==
  IF session.isLoading THEN Element("spinner", <<>>, <<>>)
  ELSE IF ~session.isAuthenticated
  THEN Element("navigate", ROUTE_LOGIN, location)
  ELSE IF props.requireAdmin /\ ~isSuperuser(session.user)
  THEN Element("navigate", ROUTE_DASHBOARD, <<>>)
  ELSE Element("children", <<>>, <<>>)

\* a guard that checks the administrator flag before the session
ProtectedRouteAdminFirst(session, props, location) ==
  IF session.isLoading THEN Element("spinner", <<>>, <<>>)
  ELSE IF props.requireAdmin /\ ~isSuperuser(session.user)
  THEN Element("navigate", ROUTE_DASHBOARD, <<>>)
  ELSE IF ~session.isAuthenticated
  THEN Element("navigate", ROUTE_LOGIN, location)
  ELSE IF props.requireRoot
          /\ (~isSuperuser(session.user) \/ ~inRootCompany(session.user))
  THEN Element("navigate", ROUTE_DASHBOARD, <<>>)
  ELSE Element("children", <<>>, <<>>)

\* a guard whose root check looks at the company only
ProtectedRouteRootByCompany(session, props, location) ==
  IF session.isLoading THEN Element("spinner", <<>>, <<>>)
  ELSE IF ~session.isAuthenticated
  THEN Element("navigate", ROUTE_LOGIN, location)
  ELSE IF props.requireAdmin /\ ~isSuperuser(session.user)
  THEN Element("navigate", ROUTE_DASHBOARD, <<>>)
  ELSE IF props.requireRoot /\ ~inRootCompany(session.user)
  THEN Element("navigate", ROUTE_DASHBOARD, <<>>)
  ELSE Element("children", <<>>, <<>>)

\* ProtectedRoute({children, requireAdmin, requireRoot}) rendered at location
\* with the session useAuth() gives it
ProtectedRoute(session, props, location) ==
  IF session.isLoading THEN Element("spinner", <<>>, <<>>)
  ELSE IF ~session.isAuthenticated
  THEN Element("navigate", ROUTE_LOGIN, location)
  ELSE IF props.requireAdmin /\ ~isSuperuser(session.user)
  THEN Element("navigate", ROUTE_DASHBOARD, <<>>)
  ELSE IF props.requireRoot
          /\ (~isSuperuser(session.user) \/ ~inRootCompany(session.user))
  THEN Element("navigate", ROUTE_DASHBOARD, <<>>)
  ELSE Element("children", <<>>, <<>>)

\* one rendering of the guard, for the history variable
Rendered(session, props, location) ==
  [kind |-> "guard", isLoading |-> session.isLoading,
   isAuthenticated |-> session.isAuthenticated, user |-> session.user,
   requireAdmin |-> props.requireAdmin, requireRoot |-> props.requireRoot,
   location |-> location,
   element |-> ProtectedRoute(session, props, location)]

\* ---------------------------------------------------------------- confirmation dialog
\* useState's argument in useConfirm
initialConfirmState == [isOpen |-> FALSE, title |-> "", type |-> "warning"]

\* the options the pages call confirm() with: Layout.handleLogout, the
\* delete handlers of the administration pages, and no options at all
ConfirmOptions ==
  { [title |-> "Sign Out", type |-> "warning"],
    [title |-> "Delete User", type |-> "danger"],
    [title |-> "", type |-> ""] }

\* a || b on strings
Or2(a, b) == IF a # "" THEN a ELSE b

\* the hook's state and ref, and the promises it handed out
Dialog ==
  [confirmState |-> confirmState, onConfirmRef |-> onConfirmRef,
   promises |-> promises]

CommitDialog(d) ==
  /\ confirmState' = d.confirmState
  /\ onConfirmRef' = d.onConfirmRef
  /\ promises' = d.promises

\* resolve(value) of promise i: a settled promise keeps its value
settle(d, i, value) ==
  IF d.promises[i] = "pending" THEN [d EXCEPT !.promises[i] = value] ELSE d

\* confirm(options): a new promise whose resolve(true) is kept in the ref
confirm(d, options) ==
  [confirmState |-> [isOpen |-> TRUE,
                     title |-> Or2(options.title, "Confirm Action"),
                     type |-> Or2(options.type, "warning")],
   onConfirmRef |-> Len(d.promises) + 1,
   promises |-> Append(d.promises, "pending")]

\* closeConfirm()
closeConfirm(d) ==
  [d EXCEPT !.confirmState.isOpen = FALSE, !.onConfirmRef = 0]

\* handleConfirm()
handleConfirm(d) ==
  closeConfirm(IF d.onConfirmRef # 0 THEN settle(d, d.onConfirmRef, "true")
               ELSE d)

\* ConfirmDialog.handleConfirm: onConfirm(); onClose()
dialogHandleConfirm(d) == closeConfirm(handleConfirm(d))

\* ConfirmDialog.handleCancel, and Modal's Escape key and overlay click:
\* onClose()
dialogHandleCancel(d) == closeConfirm(d)

\* ---------------------------------------------------------------- backend
TokenUrls == {URL_LOGIN, URL_REFRESH}

\* the bodies a 2xx response to url can carry
Payloads(url) ==
  IF url \in TokenUrls
  THEN IF issued < MaxIssued THEN {NewPair(issued + 1)} ELSE {}
  ELSE IF url = URL_ME THEN Users
  ELSE {Null}

\* ---------------------------------------------------------------- actions
InitAt(routes) ==
  /\ localStorage \in
       [access_token : {Null, Garbage, AccessToken(0, Expired), AccessToken(0, Valid)},
        refresh_token : {Null, RefreshToken(0)}]
  /\ state = initialState
  /\ initializationAttempted = FALSE
  /\ isInitializing = FALSE
  /\ pathname \in routes
  /\ locationState = <<>>
  /\ redirectPending = FALSE
  /\ pc = [p \in Flows |-> "idle"]
  /\ req = [p \in Flows |-> NoReq]
  /\ loc = [p \in Flows |-> NoLoc]
  /\ issued = 0
  /\ hook = initialHook
  /\ confirmState = initialConfirmState
  /\ onConfirmRef = 0
  /\ promises = <<>>
  /\ last = NoLast

\* the application is opened at one of its paths
Init == InitAt(Routes)

\* React invokes the mount effect of AuthProvider (twice under StrictMode)
MountEffect == Commit(mountEffect(World))

\* the protected pages are rendered (ProtectedRoute returns children)
PageRendered ==
  /\ pathname # ROUTE_LOGIN
  /\ ProtectedRoute(state, RouteProps(pathname), pathname).out = "children"

\* Login.onSubmit: the form is enabled and the page did not navigate away
LoginSubmit ==
  /\ pathname = ROUTE_LOGIN
  /\ ~state.isLoading
  /\ ~state.isAuthenticated
  /\ pc[LoginFlow] = "idle"
  /\ Commit(login(World))

\* Layout.handleLogout once the dialog is confirmed
LogoutClick ==
  /\ PageRendered
  /\ pc[LogoutFlow] = "idle"
  /\ Commit(call(World, LogoutFlow, URL_LOGOUT, "logout_post"))

\* Profile's form calls updateUser
UpdateSubmit ==
  /\ PageRendered
  /\ pc[UpdateFlow] = "idle"
  /\ Commit(call(World, UpdateFlow, URL_ME, "updateUser_put"))

\* a page calls a service function through useApi
Execute(i, options) ==
  /\ PageRendered
  /\ pc[Crud(i)] = "idle"
  /\ \E url \in CrudUrls : Commit(execute(World, Crud(i), url, options))

\* the pages call execute() without an error message of their own
CrudStart(i) == Execute(i, [errorMessage |-> ""])

\* the backend answers the request of flow p with 2xx
ServerOk(p) ==
  /\ req[p].phase = "sent"
  /\ \E data \in Payloads(req[p].url) :
       Commit(promiseResolve(
         [World EXCEPT !.issued = IF req[p].url \in TokenUrls THEN @ + 1 ELSE @],
         p, data))

\* the request of flow p fails: an error response, no response, or timeout
ServerError(p) ==
  /\ req[p].phase = "sent"
  /\ \E error \in Errors : Commit(responseInterceptor(World, p, error))

\* the backend answers the interceptor's refresh call with a new pair
RefreshOk(p) ==
  /\ req[p].phase = "refreshing"
  /\ issued < MaxIssued
  /\ Commit(refreshSucceeded([World EXCEPT !.issued = @ + 1], p,
                             NewPair(issued + 1)))

\* the interceptor's refresh call fails
RefreshError(p) ==
  /\ req[p].phase = "refreshing"
  /\ Commit(refreshFailed(World, p))

\* ProtectedRoute renders <Navigate to="/login"> for an anonymous session
ProtectedRouteRedirect ==
  /\ pathname # ROUTE_LOGIN
  /\ ProtectedRoute(state, RouteProps(pathname), pathname).out = "navigate"
  /\ LET element == ProtectedRoute(state, RouteProps(pathname), pathname) IN
       Commit([show(World, element.to, element.from)
                 EXCEPT !.last = Did("guard_redirect")])

\* a Login page that always continues to the dashboard
fromAlwaysDashboard(state_from) == ROUTE_DASHBOARD

\* Login: const from = location.state?.from?.pathname || '/dashboard'
from(state_from) ==
  IF state_from = <<>> THEN ROUTE_DASHBOARD ELSE state_from

\* Login's effect navigates away once the session is authenticated
LoginPageRedirect ==
  /\ pathname = ROUTE_LOGIN
  /\ state.isAuthenticated
  /\ Commit([navigate(World, from(locationState))
               EXCEPT !.last = Did("login_redirect")])

\* the interceptor's timer fires: window.location.href = '/login' loads the
\* application anew; only the Token Store survives
RedirectFires ==
  /\ redirectPending
  /\ state' = initialState
  /\ initializationAttempted' = FALSE
  /\ isInitializing' = FALSE
  /\ pathname' = ROUTE_LOGIN
  /\ locationState' = <<>>
  /\ redirectPending' = FALSE
  /\ pc' = [p \in Flows |-> "idle"]
  /\ req' = [p \in Flows |-> NoReq]
  /\ loc' = [p \in Flows |-> NoLoc]
  /\ hook' = initialHook
  /\ last' = Did("reloaded")
  /\ CommitDialog([confirmState |-> initialConfirmState, onConfirmRef |-> 0,
                   promises |-> <<>>])
  /\ UNCHANGED <<localStorage, issued>>

Next ==
  \/ MountEffect
  \/ LoginSubmit
  \/ LogoutClick
  \/ UpdateSubmit
  \/ \E i \in 1..MaxReq : CrudStart(i)
  \/ \E p \in Flows : ServerOk(p)
  \/ \E p \in Flows : ServerError(p)
  \/ \E p \in Flows : RefreshOk(p)
  \/ \E p \in Flows : RefreshError(p)
  \/ ProtectedRouteRedirect
  \/ LoginPageRedirect
  \/ RedirectFires

Spec == Init /\ [][Next]_vars

\* ---------------------------------------------------------------- the reducer alone
\* the events the Session Controller dispatches, with every payload it can carry
ErrorMessages(fallback) ==
  {Str(Or3(error.detail, error.message, fallback)) : error \in Errors}

ReducerActionsOf(users) ==
  [type : {"LOGIN_START", "LOGOUT", "CLEAR_ERROR"}]
  \cup {[type |-> "LOGIN_SUCCESS",
         payload |-> [user |-> user, token |-> AccessToken(k, Valid),
                      refreshToken |-> RefreshToken(k)]] :
          user \in users, k \in 0..MaxIssued}
  \cup [type : {"LOGIN_FAILURE"}, payload : ErrorMessages(MESSAGES_ERROR_LOGIN)]
  \cup [type : {"UPDATE_USER"}, payload : users]
  \cup [type : {"SET_LOADING"}, payload : BOOLEAN]
  \cup [type : {"SET_ERROR"}, payload : ErrorMessages(MESSAGES_ERROR_UPDATE)]

ReducerActions == ReducerActionsOf(Users)

\* one dispatch, whatever the event
Dispatch ==
  /\ \E action \in ReducerActions :
       /\ state' = authReducer(state, action)
       /\ last' = Did(action.type)
  /\ UNCHANGED dialogVars
  /\ UNCHANGED <<localStorage, initializationAttempted, isInitializing,
                 pathname, locationState, redirectPending, pc, req, loc,
                 issued, hook>>

ReducerSpec == Init /\ [][Dispatch]_vars

\* ---------------------------------------------------------------- the Route Guard alone
\* the session changes by one reducer event, the user being any kind of user
SessionChanges ==
  /\ \E action \in ReducerActionsOf(AllUsers) :
       state' = authReducer(state, action)
  /\ last' = Did("session_changed")
  /\ UNCHANGED dialogVars
  /\ UNCHANGED <<localStorage, initializationAttempted, isInitializing,
                 pathname, locationState, redirectPending, pc, req, loc,
                 issued, hook>>

\* the user opens a path of the application
Visit(route) ==
  /\ pathname' = route
  /\ locationState' = <<>>
  /\ last' = Did("visited")
  /\ UNCHANGED dialogVars
  /\ UNCHANGED <<localStorage, state, initializationAttempted, isInitializing,
                 redirectPending, pc, req, loc, issued, hook>>

\* App renders the element of a guarded path; a <Navigate> navigates
RouteRendered ==
  /\ pathname \in GuardedRoutes
  /\ LET r == Rendered(state, RouteProps(pathname), pathname) IN
       /\ last' = [Did("route_rendered") EXCEPT !.held = r]
       /\ pathname' = IF r.element.out = "navigate" THEN r.element.to
                      ELSE pathname
       /\ locationState' = IF r.element.out = "navigate" THEN r.element.from
                           ELSE locationState
  /\ UNCHANGED dialogVars
  /\ UNCHANGED <<localStorage, state, initializationAttempted, isInitializing,
                 redirectPending, pc, req, loc, issued, hook>>

\* ProtectedRoute rendered with any props
GuardApplied ==
  /\ \E props \in [requireAdmin : BOOLEAN, requireRoot : BOOLEAN] :
       last' = [Did("guard_applied") EXCEPT
                  !.held = Rendered(state, props, pathname)]
  /\ UNCHANGED dialogVars
  /\ UNCHANGED <<localStorage, state, initializationAttempted, isInitializing,
                 pathname, locationState, redirectPending, pc, req, loc,
                 issued, hook>>

GuardNext ==
  \/ SessionChanges
  \/ \E route \in GuardedRoutes \cup {ROUTE_LOGIN} : Visit(route)
  \/ RouteRendered
  \/ GuardApplied

GuardSpec == Init /\ [][GuardNext]_vars

\* ---------------------------------------------------------------- bootstrap liveness
\* every request issued is answered, fails or times out, and so is every
\* refresh call of the interceptor
Responds(p) == ServerOk(p) \/ ServerError(p) \/ RefreshOk(p) \/ RefreshError(p)

\* React runs the mount effect once the provider of a loaded page is mounted
FirstMount == ~initializationAttempted /\ MountEffect

\* the application from its load to the end of its bootstrap: while
\* initializeAuth runs isLoading is true, every form is disabled and every
\* guarded page shows the spinner, so no other flow is started
BootNext ==
  \/ MountEffect
  \/ ServerOk(InitFlow)
  \/ ServerError(InitFlow)
  \/ RefreshOk(InitFlow)
  \/ RefreshError(InitFlow)

LiveSpec ==
  Init /\ [][BootNext]_vars /\ WF_vars(FirstMount) /\ WF_vars(Responds(InitFlow))

\* ---------------------------------------------------------------- paired store
\* the application loaded over a Token Store that holds both tokens or none
PairedInit ==
  /\ Init
  /\ (localStorage.access_token = Null) <=> (localStorage.refresh_token = Null)

PairedSpec == PairedInit /\ [][Next]_vars

\* ---------------------------------------------------------------- login liveness
\* the Login page from the load of the application to the end of a login
\* attempt; the page is not reloaded while the attempt runs
LoginNext ==
  \/ MountEffect
  \/ ServerOk(InitFlow)
  \/ ServerError(InitFlow)
  \/ RefreshOk(InitFlow)
  \/ RefreshError(InitFlow)
  \/ ProtectedRouteRedirect
  \/ LoginSubmit
  \/ ServerOk(LoginFlow)
  \/ ServerError(LoginFlow)
  \/ RefreshOk(LoginFlow)
  \/ RefreshError(LoginFlow)

LoginLiveSpec ==
  /\ Init /\ [][LoginNext]_vars
  /\ WF_vars(FirstMount) /\ WF_vars(Responds(InitFlow))
  /\ WF_vars(Responds(LoginFlow))

\* ---------------------------------------------------------------- the dialog alone
\* a handler of the page calls confirm(); nothing prevents a call while the
\* dialog of an earlier call is open (the focused button answers the keyboard)
ConfirmCalled ==
  /\ Len(promises) < MaxConfirms
  /\ \E options \in ConfirmOptions : CommitDialog(confirm(Dialog, options))
  /\ last' = Did("confirm_called")
  /\ UNCHANGED appVars

\* the user presses the dialog's confirm button
ConfirmClicked ==
  /\ confirmState.isOpen
  /\ CommitDialog(dialogHandleConfirm(Dialog))
  /\ last' = Did("dialog_confirmed")
  /\ UNCHANGED appVars

\* the user presses the dialog's cancel button
CancelClicked ==
  /\ confirmState.isOpen
  /\ CommitDialog(dialogHandleCancel(Dialog))
  /\ last' = Did("dialog_cancelled")
  /\ UNCHANGED appVars

\* the user presses Escape or clicks the overlay of the Modal
ModalClosed ==
  /\ confirmState.isOpen
  /\ CommitDialog(closeConfirm(Dialog))
  /\ last' = Did("dialog_closed")
  /\ UNCHANGED appVars

ConfirmNext ==
  \/ ConfirmCalled
  \/ ConfirmClicked
  \/ CancelClicked
  \/ ModalClosed

ConfirmSpec == Init /\ [][ConfirmNext]_vars

\* ---------------------------------------------------------------- a page's data calls
\* an administration page after the load of the application: its handlers
\* call execute() on the page's one hook, also while earlier calls are awaited
ApiNext ==
  \/ MountEffect
  \/ ServerOk(InitFlow)
  \/ ServerError(InitFlow)
  \/ RefreshOk(InitFlow)
  \/ RefreshError(InitFlow)
  \/ \E i \in 1..MaxCalls, options \in ExecuteOptions : Execute(i, options)
  \/ \E p \in ApiFlows : ServerOk(p)
  \/ \E p \in ApiFlows : ServerError(p)
  \/ \E p \in ApiFlows : RefreshOk(p)
  \/ \E p \in ApiFlows : RefreshError(p)
  \/ ProtectedRouteRedirect
  \/ LoginPageRedirect
  \/ RedirectFires

ApiSpec == Init /\ [][ApiNext]_vars

\* ---------------------------------------------------------------- round trip
\* the application opened at any guarded path or at the Login page, from
\* its load through the guard's redirect to a login and the page after it
RoundTripNext ==
  \/ LoginNext
  \/ LoginPageRedirect

RoundTripSpec ==
  InitAt(GuardedRoutes \cup {ROUTE_LOGIN}) /\ [][RoundTripNext]_vars

\* ---------------------------------------------------------------- claims
TokensAbsent(ls) == ls.access_token = Null /\ ls.refresh_token = Null
Http == last.http

\* C1 (as amended).  A 401 response to a request not yet marked retried
\* triggers exactly one refresh attempt when a refresh token is stored, and
\* none when it is absent; when that refresh succeeds the request is
\* dispatched again exactly once, carrying the newly issued access token; a
\* request never sees more than one refresh attempt nor more than two
\* dispatches.
C1_RefreshOncePerRequest ==
  /\ \A p \in Flows :
       req[p].phase # "none" => req[p].refreshes <= 1 /\ req[p].dispatches <= 2
  /\ Http.ev \in {"rejected", "resolved"} =>
       Http.refreshes <= 1 /\ Http.dispatches <= 2
  /\ Http.ev = "refreshing" =>
       /\ Http.refresh_token # Null
       /\ req[Http.p].refreshes = 1
       /\ req[Http.p].dispatches = 1
  /\ (Http.ev = "rejected" /\ Http.status = 401 /\ ~Http.retried) =>
       /\ Http.lsBefore.refresh_token = Null
       /\ Http.refreshes = 0
       /\ Http.dispatches = 1
  /\ Http.ev = "refreshed" =>
       /\ req[Http.p].phase = "sent"
       /\ req[Http.p].dispatches = 2
       /\ req[Http.p].refreshes = 1
       /\ req[Http.p].Authorization = Http.data.access_token

\* C1 witness: a refresh succeeded and the request went out a second time
C1_Witness ==
  Http.ev = "refreshed" /\ req[Http.p].dispatches = 2

\* C1 as first stated: every 401 to a request not yet marked retried leads to
\* a refresh attempt
C1_Original ==
  (Http.ev = "rejected" /\ Http.status = 401 /\ ~Http.retried) =>
    Http.refreshes = 1

\* C2.  A 401 response to a request that carries the retry marker is handed
\* to the caller: the interceptor starts no refresh call (a refresh call is
\* only ever started for a request on its first dispatch), leaves the Token
\* Store as it was, schedules no redirect and does not dispatch the request
\* again.
C2_RetriedIsPropagated ==
  /\ (Http.ev = "rejected" /\ Http.status = 401 /\ Http.retried
        /\ Http.why # "refresh_failed") =>
       /\ Http.ls = Http.lsBefore
       /\ ~Http.scheduled
       /\ Http.refreshes = 1
       /\ Http.dispatches = 2
       /\ req[Http.p].phase = "none"
  /\ \A p \in Flows :
       req[p].phase = "refreshing" => req[p].dispatches = 1
  /\ \A p \in Flows :
       (req[p].phase = "sent" /\ req[p].retry) => req[p].dispatches = 2

\* C2 witness: the re-dispatched request was answered 401 and rejected
C2_Witness ==
  Http.ev = "rejected" /\ Http.status = 401 /\ Http.retried
    /\ Http.why = "retried"

\* C3 (as amended).  When the interceptor's refresh call fails, both
\* persisted tokens are removed before the request is rejected to its caller;
\* when the refresh token is absent or the re-dispatched request fails again,
\* the error is propagated with the Token Store as it was and no redirect;
\* only a failed refresh schedules the redirect, and when the redirect fires
\* the application restarts on the login route with an unauthenticated
\* session.
C3_UnrecoveredFailure ==
  /\ (Http.ev = "rejected" /\ Http.why = "refresh_failed") =>
       TokensAbsent(Http.ls) /\ Http.status = 401
  /\ (Http.ev = "rejected" /\ Http.why \in {"no_refresh_token", "retried"}) =>
       Http.ls = Http.lsBefore /\ ~Http.scheduled
  /\ (Http.ev = "rejected" /\ Http.scheduled) =>
       Http.why = "refresh_failed" /\ redirectPending
  /\ last.flow = "reloaded" =>
       pathname = ROUTE_LOGIN /\ ~state.isAuthenticated /\ ~redirectPending

\* C3 witness: a refresh failed, the tokens are gone, the redirect is armed
C3_Witness ==
  Http.ev = "rejected" /\ Http.why = "refresh_failed" /\ Http.scheduled
    /\ TokensAbsent(localStorage)

\* C3 as first stated: whenever a 401 on a call other than the credential
\* exchange is finally rejected to the caller, the tokens are gone and the
\* user is on the way to the login route: the hard redirect is armed, or the
\* session is already anonymous and the Route Guard redirects
C3_Original ==
  (Http.ev = "rejected" /\ Http.status = 401 /\ Http.url # URL_LOGIN) =>
    /\ TokensAbsent(localStorage)
    /\ redirectPending \/ ~state.isAuthenticated

\* C4.  When the interceptor's refresh call fails, both tokens are cleared
\* and the redirect is scheduled if and only if the request targets neither
\* the current-user endpoint nor the refresh endpoint and the page is not
\* public.
C4_RedirectIffNotExempt ==
  (Http.ev = "rejected" /\ Http.why = "refresh_failed") =>
    /\ TokensAbsent(Http.ls)
    /\ Http.scheduled <=>
         (Http.url # URL_ME /\ Http.url # URL_REFRESH
            /\ Http.path \notin PublicPages)

\* C5.  isAuthenticated is true if and only if user, access token and
\* refresh token are all present, after any sequence of reducer events.
C5_SessionInvariant ==
  state.isAuthenticated <=>
    (state.user # Null /\ state.token # Null /\ state.refreshToken # Null)

\* C5 witness: an anonymous session that holds a user but no tokens
C5_Witness ==
  ~state.isAuthenticated /\ state.user # Null /\ state.error # Null

\* C6.  When logout returns, the session is not authenticated and both
\* persisted tokens are absent, whether the server call succeeded or failed
\* and whatever other requests are in flight.
C6_LogoutClears ==
  last.flow = "logout_returned" =>
    ~state.isAuthenticated /\ TokensAbsent(localStorage)

\* C6 witness: the server call failed while another request's refresh was
\* in flight
C6_Witness ==
  /\ last.flow = "logout_returned"
  /\ Http.ev = "rejected"
  /\ \E p \in Flows \ {LogoutFlow} : req[p].phase = "refreshing"

\* C7.  When login throws, the tokens it had persisted (if the credential
\* exchange had succeeded) are cleared, the session is anonymous with
\* isLoading false and the error set to the failure message.
C7_LoginFailureClears ==
  last.flow = "login_threw" =>
    /\ last.held.kind = "login" => TokensAbsent(localStorage)
    /\ ~state.isAuthenticated
    /\ ~state.isLoading
    /\ state.error \in ErrorMessages(MESSAGES_ERROR_LOGIN)

\* the pair the login call returned, while login awaits and when it returns
LoginPair(held) ==
  [access_token |-> held.response.access_token,
   refresh_token |-> held.response.refresh_token]
\* the Token Store holds pair, or a refresh handler rewrote it since: it is
\* empty or holds a pair issued later
PairOrRewritten(ls, pair) ==
  \/ ls = pair
  \/ TokensAbsent(ls)
  \/ /\ ls.access_token.kind = "jwt" /\ ls.access_token.id > pair.access_token.id
     /\ ls.refresh_token.kind = "refresh"
     /\ ls.refresh_token.id = ls.access_token.id

C9_RefreshedBootstrap ==
  last.flow = "init_refreshed_authenticated" =>
    /\ state.isAuthenticated
    /\ localStorage.access_token = state.token
    /\ localStorage.refresh_token = state.refreshToken

\* C10.  Every failing bootstrap branch (expired token and failing refresh;
\* expired token, refresh, failing user fetch; valid token and failing user
\* fetch; undecodable token) ends anonymous, not loading, with an empty Token
\* Store, and each branch is taken for the tokens it is named after.
FailedBootstraps ==
  {"init_refresh_failed", "init_refreshed_user_failed", "init_user_failed",
   "init_malformed"}
C10_FailedBootstrapClears ==
  /\ last.flow \in FailedBootstraps =>
       /\ ~state.isAuthenticated
       /\ ~state.isLoading
       /\ state.user = Null
       /\ TokensAbsent(localStorage)
  /\ last.flow = "init_malformed" => last.held.token = Garbage
  /\ last.flow \in {"init_refresh_failed", "init_refreshed_user_failed"} =>
       last.held.token.exp <= currentTime
  /\ last.flow = "init_user_failed" => last.held.token.exp > currentTime
  /\ (last.held.kind = "init" /\ last.flow \notin FailedBootstraps
        /\ ~state.isAuthenticated) =>
       last.flow = "init_no_tokens"

\* C10 witness: the refresh succeeded, the user fetch failed
C10_Witness ==
  last.flow = "init_refreshed_user_failed" /\ TokensAbsent(localStorage)

\* C11.  Bootstrap with a stored access token that has not expired, a stored
\* refresh token and a successful user fetch ends authenticated and not
\* loading, with the fetched user and the pair that was stored when the
\* bootstrap started in the session; the controller itself calls the
\* current-user endpoint only, never the refresh endpoint.
C11_ValidTokenBootstrap ==
  /\ last.flow = "init_authenticated" =>
       /\ state.isAuthenticated
       /\ ~state.isLoading
       /\ Http.ev = "resolved" /\ Http.url = URL_ME /\ state.user = Http.data
       /\ jwtDecode(last.held.token).exp > currentTime
       /\ last.held.refreshToken # Null
       /\ state.token = last.held.token
       /\ state.refreshToken = last.held.refreshToken
       /\ "newTokens" \notin DOMAIN last.held
  /\ pc[InitFlow] = "init_getCurrentUser" =>
       /\ req[InitFlow].url = URL_ME
       /\ jwtDecode(loc[InitFlow].token).exp > currentTime
       /\ "newTokens" \notin DOMAIN loc[InitFlow]

\* C11 witness: the user fetch succeeded only after the interceptor renewed
\* the tokens, and the session still holds the pair stored at the start
C11_Witness ==
  /\ last.flow = "init_authenticated"
  /\ Http.retried
  /\ state.token = last.held.token
  /\ localStorage.access_token # state.token

\* C12.  Bootstrap without a stored access token or without a stored refresh
\* token ends anonymous and not loading, and issues no network call: no
\* request is in flight when it returns, no token was issued, and a
\* bootstrap that awaits a response read both tokens from the Token Store.
C12_NoTokensBootstrap ==
  /\ last.flow = "init_no_tokens" =>
       /\ last.held.token = Null \/ last.held.refreshToken = Null
       /\ ~state.isAuthenticated
       /\ ~state.isLoading
       /\ \A p \in Flows : req[p].phase = "none" /\ pc[p] = "idle"
  /\ pc[InitFlow] # "idle" =>
       loc[InitFlow].token # Null /\ loc[InitFlow].refreshToken # Null
  /\ (last.held.kind = "init"
        /\ (last.held.token = Null \/ last.held.refreshToken = Null)) =>
       last.flow = "init_no_tokens"

\* C12 witness: the bootstrap of an empty Token Store returned
C12_Witness ==
  /\ last.flow = "init_no_tokens"
  /\ TokensAbsent(localStorage)
  /\ ~state.isLoading

BootstrapRunsAlone ==
  pc[InitFlow] # "idle" => \A p \in Flows \ {InitFlow} : pc[p] = "idle"

\* the mount effect ran and started nothing: no variable of the program changed
NothingStarted ==
  UNCHANGED <<localStorage, state, initializationAttempted, isInitializing,
              pathname, redirectPending, pc, req, loc, issued>>
\* a step in which initializeAuth starts
BootstrapStarts ==
  /\ pc[InitFlow] = "idle"
  /\ \/ pc'[InitFlow] # "idle"
     \/ last'.held.kind = "init"

\* C14.  Once the latch is set, no invocation of the mount effect starts a
\* bootstrap: the invocation changes nothing and issues no request, whether
\* the first bootstrap is still awaiting a response or has returned; a
\* bootstrap only ever starts with the latch open.
C14_BootstrapLatch ==
  [][/\ last'.flow = "mount_skipped" => NothingStarted
     /\ BootstrapStarts =>
          ~initializationAttempted /\ ~isInitializing
            /\ initializationAttempted']_vars

\* C14 witness: the mount effect was invoked again while the first bootstrap
\* awaits its user fetch
C14_Witness ==
  /\ last.flow = "mount_skipped"
  /\ pc[InitFlow] = "init_getCurrentUser"
  /\ req[InitFlow].dispatches = 1
  /\ isInitializing

\* a step in which the request of flow p goes onto the wire
Dispatched(p) ==
  /\ req'[p].phase = "sent"
  /\ req[p].phase # "sent" \/ req'[p].dispatches # req[p].dispatches

\* C15.  Every request that goes onto the wire, the second dispatch after a
\* refresh included, carries as its bearer credential the access token the
\* Token Store holds at that moment, and carries none when the store holds
\* none.
C15_BearerIsStoredToken ==
  [][\A p \in Flows :
       Dispatched(p) => req'[p].Authorization = localStorage'.access_token]_vars

\* C15 witness: a request was dispatched again after a refresh and carries
\* the renewed access token now stored
C15_Witness ==
  \E p \in Flows :
    /\ req[p].phase = "sent" /\ req[p].retry
    /\ req[p].Authorization = localStorage.access_token
    /\ req[p].Authorization = NewPair(issued).access_token

\* the requests whose refresh call is in flight
Refreshing == {p \in Flows : req[p].phase = "refreshing"}
PairOf(data) ==
  [access_token |-> data.access_token, refresh_token |-> data.refresh_token]

\* C16 (as amended).  Each concurrent request that receives a 401 on its
\* first dispatch while a refresh token is stored issues its own refresh
\* call, whether or not the refresh call of another request is in flight
\* (no coalescing); one that finds the refresh token gone (a handler whose
\* refresh failed, or logout, removed it) issues none and is rejected.  The
\* Token Store is written without a lock: after each handler completes it
\* holds that handler's write, the new pair or nothing.
C16_NoCoalescing ==
  /\ Http.ev = "refreshing" =>
       /\ Http.p \in Refreshing
       /\ req[Http.p].refreshes = 1
  /\ (Http.ev = "rejected" /\ Http.status = 401 /\ ~Http.retried) =>
       Http.why = "no_refresh_token" /\ Http.lsBefore.refresh_token = Null
  /\ Http.ev = "refreshed" => localStorage = PairOf(Http.data)
  /\ (Http.ev = "rejected" /\ Http.why = "refresh_failed") =>
       TokensAbsent(localStorage)

\* C16 witness: a second request received its 401 and issued its own refresh
\* call while the refresh call of another was in flight
C16_Witness ==
  /\ Http.ev = "refreshing"
  /\ Cardinality(Refreshing) >= 2

\* C16 as first stated: of the requests that are concurrently handling a
\* 401, each has issued a refresh call
C16_Original ==
  (Http.ev = "rejected" /\ Http.status = 401 /\ ~Http.retried
     /\ Refreshing # {}) =>
    Http.refreshes = 1

\* C17.  When the error status is not 401, or it is 401 and no refresh token
\* is stored, the interceptor hands the error to the caller, whose catch
\* block runs, with the Token Store as it found it, no refresh call issued
\* and no redirect scheduled; a refresh call is only ever issued for a 401
\* with a refresh token stored.
C17_PropagatedUnchanged ==
  /\ (Http.ev = "rejected" /\ Http.status # 401) => Http.why = "not_401"
  /\ (Http.ev = "rejected" /\ Http.status = 401 /\ ~Http.retried) =>
       Http.why = "no_refresh_token"
  /\ (Http.ev = "rejected" /\ Http.why = "no_refresh_token") =>
       Http.lsBefore.refresh_token = Null /\ Http.refreshes = 0
  /\ (Http.ev = "rejected" /\ Http.why \in {"not_401", "no_refresh_token"}) =>
       /\ Http.ls = Http.lsBefore
       /\ ~Http.scheduled
       /\ req[Http.p].phase = "none"
       /\ last.p = Http.p
       /\ last.flow \in {"init_user_failed", "init_refresh_failed",
                          "init_refreshed_user_failed", "login_threw",
                          "logout_returned", "updateUser_threw", "crud_threw"}
  /\ Http.ev = "refreshing" =>
       /\ req[Http.p].error.status = 401
       /\ Http.refresh_token # Null

\* C17 witness: a 500 was propagated while both tokens were stored, and they
\* still are after the interceptor
C17_Witness ==
  /\ Http.ev = "rejected" /\ Http.status = 500
  /\ Http.lsBefore.refresh_token # Null /\ Http.lsBefore.access_token # Null
  /\ Http.ls = Http.lsBefore
  /\ ~redirectPending

\* the last rendering of the guard
Guard == last.held
GuardRan == last.flow \in {"guard_applied", "route_rendered"}

\* C18.  The Route Guard renders the protected view exactly when isLoading
\* is false, isAuthenticated is true, requireAdmin implies that the user is
\* an administrator and requireRoot implies that the user is an
\* administrator of company 1; while isLoading it renders the placeholder
\* and navigates nowhere.
C18_GuardDecision ==
  GuardRan =>
    /\ Guard.element.out = "children" <=>
         /\ ~Guard.isLoading
         /\ Guard.isAuthenticated
         /\ Guard.requireAdmin => Guard.user # Null /\ Guard.user.is_superuser
         /\ Guard.requireRoot =>
              /\ Guard.user # Null
              /\ Guard.user.is_superuser
              /\ Guard.user.company_id = 1
    /\ Guard.isLoading =>
         /\ Guard.element.out = "spinner"
         /\ Guard.element.to = <<>>
         /\ pathname = Guard.location

\* C18 witness: a guard with requireRoot alone turned away a user of company
\* 1 who is no administrator
C18_Witness ==
  /\ last.flow = "guard_applied"
  /\ Guard.requireRoot /\ ~Guard.requireAdmin
  /\ Guard.isAuthenticated /\ ~Guard.isLoading
  /\ Guard.user # Null /\ ~Guard.user.is_superuser /\ Guard.user.company_id = 1
  /\ Guard.element.out = "navigate"

\* C19.  For a settled, unauthenticated session the guard of every admin
\* path renders no children: it navigates to /login, with the attempted
\* location in the navigation state; the session check comes before the
\* administrator and root checks, so the target is /login, not /dashboard.
C19_AnonymousToLogin ==
  (last.flow = "route_rendered" /\ Guard.location \in AdminRoutes
     /\ ~Guard.isLoading /\ ~Guard.isAuthenticated) =>
    /\ Guard.element.out = "navigate"
    /\ Guard.element.to = ROUTE_LOGIN
    /\ Guard.element.from = Guard.location
    /\ pathname = ROUTE_LOGIN

\* C19 witness: an anonymous session without a user asked for
\* /admin/companies and was sent to /login
C19_Witness ==
  /\ last.flow = "route_rendered"
  /\ Guard.location = ROUTE_ADMIN_COMPANIES
  /\ ~Guard.isLoading /\ ~Guard.isAuthenticated /\ Guard.user = Null
  /\ pathname = ROUTE_LOGIN

\* C20.  An authenticated administrator of a company other than 1, and an
\* authenticated user of company 1 who is no administrator, are both denied
\* /admin/companies and sent to /dashboard.
C20_RootOnly ==
  (last.flow = "route_rendered" /\ Guard.location = ROUTE_ADMIN_COMPANIES
     /\ ~Guard.isLoading /\ Guard.isAuthenticated /\ Guard.user # Null
     /\ \/ Guard.user.is_superuser /\ Guard.user.company_id # 1
        \/ ~Guard.user.is_superuser /\ Guard.user.company_id = 1) =>
    /\ Guard.element.out = "navigate"
    /\ Guard.element.to = ROUTE_DASHBOARD
    /\ pathname = ROUTE_DASHBOARD

\* C20 witness: an administrator of another company asked for
\* /admin/companies and is on /dashboard
C20_Witness ==
  /\ last.flow = "route_rendered"
  /\ Guard.location = ROUTE_ADMIN_COMPANIES
  /\ Guard.isAuthenticated /\ ~Guard.isLoading
  /\ Guard.user # Null /\ Guard.user.is_superuser /\ Guard.user.company_id # 1
  /\ pathname = ROUTE_DASHBOARD

\* C21.  When updateUser succeeds the session's user becomes the record the
\* backend returned and no other field of the session changes; when it fails
\* the error is set to the failure message, the error is rethrown, and user,
\* tokens and isAuthenticated stay as they were.
C21_UpdateUserFrame ==
  [][/\ last'.flow = "updateUser_returned" =>
          /\ last'.http.ev = "resolved" /\ last'.http.url = URL_ME
          /\ state' = [state EXCEPT !.user = last'.http.data]
     /\ last'.flow = "updateUser_threw" =>
          /\ last'.http.ev = "rejected"
          /\ state'.error \in ErrorMessages(MESSAGES_ERROR_UPDATE)
          /\ state'.user = state.user
          /\ state'.token = state.token
          /\ state'.refreshToken = state.refreshToken
          /\ state'.isAuthenticated = state.isAuthenticated]_vars

\* C21 witness: updateUser failed in an authenticated session, which keeps
\* its user and tokens and now carries the error
C21_Witness ==
  /\ last.flow = "updateUser_threw"
  /\ state.isAuthenticated /\ state.user # Null /\ state.token # Null
  /\ state.error \in ErrorMessages(MESSAGES_ERROR_UPDATE)

\* C22.  CLEAR_ERROR sets error to null and leaves user, tokens,
\* isAuthenticated and isLoading as they are, in every session state, and a
\* second CLEAR_ERROR changes nothing.
C22_ClearErrorFrame ==
  [][last'.flow = "CLEAR_ERROR" =>
       /\ state' = [state EXCEPT !.error = Null]
       /\ authReducer(state', [type |-> "CLEAR_ERROR"]) = state']_vars

\* C22 witness: the error of a loading session that kept a user was cleared
C22_Witness ==
  /\ last.flow = "CLEAR_ERROR"
  /\ state.error = Null
  /\ state.isLoading /\ state.user # Null /\ ~state.isAuthenticated

\* C26.  Whenever the session is authenticated the token and refresh token
\* it holds in memory are the pair persisted in the Token Store, a refresh
\* done by the response interceptor included.
C26_SessionHoldsPersistedPair ==
  state.isAuthenticated =>
    /\ state.token = localStorage.access_token
    /\ state.refreshToken = localStorage.refresh_token

\* C27.  When the application is loaded over a Token Store that holds both
\* tokens or neither, the store holds both or neither whenever control
\* returns to the event loop.
C27_PairAtomicity ==
  (localStorage.access_token = Null) <=> (localStorage.refresh_token = Null)

\* C27 witness: the interceptor's refresh replaced a stored pair by the
\* next pair, both tokens in the one step
C27_Witness ==
  /\ last.http.ev = "refreshed"
  /\ localStorage.access_token # Null /\ localStorage.refresh_token # Null
  /\ localStorage.refresh_token # RefreshToken(0)

\* C28.  While a login attempt is in flight the Login form is disabled
\* (isLoading is true), so that it cannot be submitted a second time, and
\* no bootstrap runs.
C28_LoginRunsAlone ==
  pc[LoginFlow] # "idle" =>
    /\ pc[InitFlow] = "idle"
    /\ state.isLoading

\* C29.  A login attempt ends with exactly one of LOGIN_SUCCESS (the
\* session is authenticated) and LOGIN_FAILURE (the session is anonymous
\* and carries the error), and every attempt started eventually ends, with
\* isLoading false.
C29_LoginSettles ==
  /\ [][pc[LoginFlow] # "idle" /\ pc'[LoginFlow] = "idle" =>
          \/ /\ last'.flow = "login_returned"
             /\ state' = authReducer(state,
                            [type |-> "LOGIN_SUCCESS",
                             payload |-> [user |-> state'.user,
                                          token |-> state'.token,
                                          refreshToken |-> state'.refreshToken]])
             /\ state'.isAuthenticated /\ ~state'.isLoading
          \/ /\ last'.flow = "login_threw"
             /\ state' = authReducer(state,
                            [type |-> "LOGIN_FAILURE", payload |-> state'.error])
             /\ state'.error \in ErrorMessages(MESSAGES_ERROR_LOGIN)
             /\ ~state'.isAuthenticated /\ ~state'.isLoading]_vars
  /\ (pc[LoginFlow] # "idle") ~> (pc[LoginFlow] = "idle" /\ ~state.isLoading)

\* C29 witness: a login attempt failed and left the loading state
C29_Witness ==
  /\ last.flow = "login_threw"
  /\ pc[LoginFlow] = "idle"
  /\ ~state.isLoading /\ state.error # Null

\* C30.  In an anonymous session with no user (as logout leaves it) user
\* data comes back only with the LOGIN_SUCCESS of a login or a bootstrap.
C30_UserStaysAbsent ==
  [][~state.isAuthenticated /\ state.user = Null /\ state'.user # Null =>
       /\ state'.isAuthenticated
       /\ last'.flow \in {"login_returned", "init_authenticated",
                         "init_refreshed_authenticated"}]_vars

\* C24.  When the guard redirects an anonymous visitor from P to /login it
\* records P; the Login page keeps the record, leaves /login only once the
\* session is authenticated, and then navigates to P, or to /dashboard when
\* no location was recorded; a failed login does not navigate.
C24_PostLoginRoundTrip ==
  [][/\ last'.flow = "guard_redirect" /\ pathname' = ROUTE_LOGIN =>
          locationState' = pathname
     /\ pathname = ROUTE_LOGIN /\ pathname' = ROUTE_LOGIN =>
          locationState' = locationState
     /\ pathname = ROUTE_LOGIN /\ pathname' # ROUTE_LOGIN =>
          /\ state.isAuthenticated /\ state'.isAuthenticated
          /\ pathname' = IF locationState = <<>> THEN ROUTE_DASHBOARD
                         ELSE locationState
     /\ last'.flow = "login_threw" =>
          pathname' = pathname /\ ~state'.isAuthenticated]_vars

\* C24 witness: after a login the page navigated back to the administration
\* page the guard had redirected from
C24_Witness ==
  /\ last.flow = "login_redirect"
  /\ pathname \in AdminRoutes
  /\ state.isAuthenticated /\ state.user # Null

\* C23.  The promise confirm() returned resolves to true when the user
\* confirms and to false when the user cancels or closes the dialog: once
\* the dialog is closed no promise is left pending.
C23_ConfirmSettles ==
  /\ ~confirmState.isOpen =>
       \A i \in DOMAIN promises : promises[i] \in {"true", "false"}
  /\ last.flow = "dialog_confirmed" => promises[Len(promises)] = "true"
  /\ last.flow \in {"dialog_cancelled", "dialog_closed"} =>
       promises[Len(promises)] = "false"

\* what execute() leaves in the hook when the call that held these locals
\* failed: the custom message, else the server's detail, else the
\* exception's message, else the network default
ExecuteMessage(held) ==
  Str(IF held.errorMessage # "" THEN held.errorMessage
      ELSE IF held.err.detail # "" THEN held.err.detail
      ELSE IF held.err.message # "" THEN held.err.message
      ELSE MESSAGES_ERROR_NETWORK)

\* a call of execute() on the hook of the page shown has settled
Settled(how) == last'.flow = how /\ last'.held.kind = "execute"

\* C25 (as amended).  Once a call of execute() settles, loading is false in
\* both outcomes; on success the result is returned and the error is left
\* as it is, which is null unless another call of the same hook failed while
\* this one was awaited; on failure the error holds the message (custom
\* message, else server detail, else exception message, else the network
\* default) and the exception is rethrown; the session is not touched.
C25_ExecuteSettles ==
  [][/\ Settled("crud_returned") =>
          /\ state' = state
          /\ last'.http.ev = "resolved"
          /\ last'.held.mounted =>
               /\ ~hook'.loading
               /\ hook'.error = hook.error
               /\ ~last'.held.overlapped => hook'.error = Null
     /\ Settled("crud_threw") =>
          /\ state' = state
          /\ last'.http.ev = "rejected"
          /\ last'.held.mounted =>
               /\ ~hook'.loading
               /\ hook'.error = ExecuteMessage(last'.held)]_vars

\* C25 witness: a call failed while another was awaited, and the call that
\* was awaited then succeeded with the error of the first in the hook
C25_Witness ==
  /\ last.flow = "crud_returned" /\ last.held.kind = "execute"
  /\ last.held.mounted /\ last.held.overlapped
  /\ ~hook.loading
  /\ hook.error # Null

\* C25 as first stated: on success the error is null
C25_Original ==
  [][/\ Settled("crud_returned") =>
          /\ state' = state
          /\ last'.held.mounted => ~hook'.loading /\ hook'.error = Null
     /\ Settled("crud_threw") =>
          /\ state' = state
          /\ last'.held.mounted =>
               /\ ~hook'.loading
               /\ hook'.error = ExecuteMessage(last'.held)]_vars
====
